---- MODULE Spec2Model ----
(***************************************************************************)
(* Model of 0x00-personal_data/filtered_logger.py: filter_datum (a chain   *)
(* of re.sub calls), RedactingFormatter.format and get_logger.            *)
(*                                                                         *)
(* Text is a sequence of one-character strings.  re.sub is modelled by    *)
(* the scan CPython's sre engine performs for the pattern                  *)
(*     (?<=FIELD SEP)(.*?)(?=SEP)                                          *)
(* including its treatment of empty matches.                               *)
(***************************************************************************)
EXTENDS Integers, Sequences, FiniteSets, TLC

VARIABLES
  fields,     \* the field list: filter_datum's argument, or self.fields
  message,    \* the message handed to filter_datum
  result,     \* what filter_datum returned
  again,      \* what filter_datum returned for its own result
  stage,      \* how far the sequential caller has come
  row,        \* the (column, value) pairs a message was built from
  call,       \* the msg and args of a logging call
  record,     \* the LogRecord of that call, which format writes to
  line,       \* what RedactingFormatter.format returned, or its failure
  handlers,   \* the handlers of the 'user_data' logger, in order
  propagate,  \* its propagate flag
  level,      \* its level
  stdout,     \* the lines written to sys.stdout
  stderr,     \* the lines written to sys.stderr
  rootOut,    \* the lines that reached the handler of the root logger
  calls,      \* the get_logger and info calls made so far
  pc,         \* per thread: its position inside format
  recs,       \* per thread: its own LogRecord
  rendered,   \* per call of format: the value of record.getMessage()
  ret         \* per thread: what its format call returned

filterVars == <<fields, message, result, again, stage>>
formatVars == <<row, call, record, line>>
loggerVars == <<handlers, propagate, level, stdout, stderr, rootOut, calls>>
threadVars == <<pc, recs, rendered, ret>>
vars == <<filterVars, formatVars, loggerVars, threadVars>>

---------------------------------------------------------------------------
(* Bounds of the model *)

MaxLen == 5
MaxFields == 2
MaxPairs == 2
MaxRow == 3
MaxPieces == 3
MaxArgs == 2
MaxCalls == 4
NThreads == 2

---------------------------------------------------------------------------
(* Text helpers *)

Min(S) == CHOOSE x \in S : \A y \in S : x <= y

\* sub occurs in text as a contiguous run
Contains(text, sub) ==
  \E i \in 0..(Len(text) - Len(sub)) : SubSeq(text, i + 1, i + Len(sub)) = sub

IsPrefix(p, t) == Len(p) <= Len(t) /\ SubSeq(t, 1, Len(p)) = p
IsSuffix(p, t) == Len(p) <= Len(t) /\ SubSeq(t, Len(t) - Len(p) + 1, Len(t)) = p

Count(text, c) == Cardinality({i \in 1..Len(text) : text[i] = c})

\* all sequences over S of length at most n
SeqsUpTo(S, n) == UNION {[1..k -> S] : k \in 0..n}

---------------------------------------------------------------------------
(* The configuration constants of RedactingFormatter *)

REDACTION == <<"*", "*", "*">>
SEPARATOR == ";"

---------------------------------------------------------------------------
(* re.sub(rf"(?<={field}{separator})(.*?)(?={separator})", redaction, m)  *)
(* A position p in 0..Len(msg) lies between msg[p] and msg[p+1].           *)

\* "." matches every character but a newline (no DOTALL flag)
Dot(c) == c # "\n"

\* a lookbehind that forgets the field name
LookBehind_separatorOnly(field, separator, msg, p) ==
  p >= 1 /\ msg[p] = separator

\* (?<=field separator) at position p
LookBehind(field, separator, msg, p) ==
  LET n == Len(field) + 1
  IN  p >= n /\ SubSeq(msg, p - n + 1, p) = field \o <<separator>>

\* (?=separator) at position e
LookAhead(separator, msg, e) == e < Len(msg) /\ msg[e + 1] = separator

\* the ends of the matches of the whole pattern that start at s and end at
\* lo or later; the lazy .*? takes the least of them
MatchEnds(field, separator, msg, s, lo) ==
  IF LookBehind(field, separator, msg, s)
  THEN {e \in lo..Len(msg) :
          LookAhead(separator, msg, e) /\ \A i \in (s + 1)..e : Dot(msg[i])}
  ELSE {}

\* the scan of re.sub from position pos; must_advance is set after an empty
\* match, and forbids an empty match at pos itself
RECURSIVE re_sub(_, _, _, _, _, _)
re_sub(field, separator, redaction, msg, pos, must_advance) ==
  LET lo(s) == IF must_advance /\ s = pos THEN s + 1 ELSE s
      starts == {s \in pos..Len(msg) :
                   MatchEnds(field, separator, msg, s, lo(s)) # {}}
  IN  IF starts = {}
      THEN SubSeq(msg, pos + 1, Len(msg))
      ELSE LET s == Min(starts)
               e == Min(MatchEnds(field, separator, msg, s, lo(s)))
           IN  SubSeq(msg, pos + 1, s) \o redaction
                 \o re_sub(field, separator, redaction, msg, e, e = s)

\* a loop that returns from inside its first iteration
filter_loop_returnsEarly(flds, redaction, msg, separator, n) ==
  IF n = 0 THEN msg ELSE re_sub(flds[1], separator, redaction, msg, 0, FALSE)

\* the for loop of filter_datum, over the first n fields
RECURSIVE filter_loop(_, _, _, _, _)
filter_loop(flds, redaction, msg, separator, n) ==
  IF n = 0 THEN msg
  ELSE re_sub(flds[n], separator, redaction,
              filter_loop(flds, redaction, msg, separator, n - 1), 0, FALSE)

filter_datum(flds, redaction, msg, separator) ==
  filter_loop(flds, redaction, msg, separator, Len(flds))

---------------------------------------------------------------------------
(* Spec: filter_datum applied once, and again to its own result, to every *)
(* message over a small alphabet and every list of distinct field names.  *)

Chars == {"a", "b", SEPARATOR, "\n"}
Names == {<<"a">>, <<"b">>, <<"a", "b">>, <<"b", "a">>}

Distinct(s) == \A i, j \in 1..Len(s) : i # j => s[i] # s[j]
FieldLists == {s \in SeqsUpTo(Names, MaxFields) : Distinct(s)}
Messages == SeqsUpTo(Chars, MaxLen)

\* longer messages, built pair by pair as '<name><separator><value><separator>'
PairNames == Names \cup {<<"x">>}
PairValues == {<<>>, <<"x">>, <<"b">>}
Pairs == {n \o <<SEPARATOR>> \o v \o <<SEPARATOR>> : n \in PairNames, v \in PairValues}

RECURSIVE Flatten(_)
Flatten(ss) == IF ss = <<>> THEN <<>> ELSE Head(ss) \o Flatten(Tail(ss))

PairMessages == {Flatten(ss) : ss \in SeqsUpTo(Pairs, MaxPairs)}

\* the variables a specification does not use stay as they are here
NoCall == [msg |-> <<>>, args |-> <<>>]
NoRecord == [msg |-> <<>>, args |-> <<>>, name |-> "", levelname |-> "",
             created |-> 0, message |-> <<>>, asctime |-> ""]
NoLine == [ok |-> TRUE, text |-> <<>>]

IdleFormat == row = <<>> /\ call = NoCall /\ record = NoRecord /\ line = NoLine
IdleLogger ==
  /\ handlers = <<>> /\ propagate = TRUE /\ level = 0
  /\ stdout = <<>> /\ stderr = <<>> /\ rootOut = <<>> /\ calls = <<>>
IdleThreads == pc = <<>> /\ recs = <<>> /\ rendered = <<>> /\ ret = <<>>

Init ==
  /\ fields \in FieldLists
  /\ message \in Messages \cup PairMessages
  /\ result = <<>>
  /\ again = <<>>
  /\ stage = "input"
  /\ IdleFormat /\ IdleLogger /\ IdleThreads

CallFilterDatum ==
  /\ stage = "input"
  /\ result' = filter_datum(fields, REDACTION, message, SEPARATOR)
  /\ stage' = "once"
  /\ UNCHANGED <<fields, message, again>>
  /\ UNCHANGED <<formatVars, loggerVars, threadVars>>

CallAgain ==
  /\ stage = "once"
  /\ again' = filter_datum(fields, REDACTION, result, SEPARATOR)
  /\ stage' = "twice"
  /\ UNCHANGED <<fields, message, result>>
  /\ UNCHANGED <<formatVars, loggerVars, threadVars>>

Next == CallFilterDatum \/ CallAgain

Spec == Init /\ [][Next]_vars

---------------------------------------------------------------------------
(* Definitions used to state the properties of filter_datum *)

Range(s) == {s[i] : i \in 1..Len(s)}

\* the orderings of a list of distinct names
Orderings(s) == {t \in [1..Len(s) -> Range(s)] : Range(t) = Range(s)}

\* the message after the first n fields of the loop
After(n) == filter_loop(fields, REDACTION, message, SEPARATOR, n)

\* no configured name occurs anywhere in the message
NamesAbsent == \A i \in 1..Len(fields) : ~Contains(message, fields[i])

\* the value spans of msg: <<s, e>> where '<field><separator>' ends at
\* position s for a configured field and the next separator stands at e + 1
ValueSpans(flds, msg) ==
  {<<s, e>> \in (0..Len(msg)) \X (0..Len(msg)) :
     /\ \E i \in 1..Len(flds) : LookBehind(flds[i], SEPARATOR, msg, s)
     /\ s <= e
     /\ LookAhead(SEPARATOR, msg, e)
     /\ \A j \in (s + 1)..e : msg[j] # SEPARATOR}

\* msg with the text of every span of D replaced by the token
RECURSIVE ReplaceSpans(_, _, _)
ReplaceSpans(msg, D, pos) ==
  LET here == {d \in D : d[1] >= pos}
  IN  IF here = {}
      THEN SubSeq(msg, pos + 1, Len(msg))
      ELSE LET d == CHOOSE x \in here : \A y \in here : x[1] <= y[1]
           IN  SubSeq(msg, pos + 1, d[1]) \o REDACTION
                 \o ReplaceSpans(msg, D \ {d}, d[2])

C4_Idempotent == stage = "twice" => again = result

\* C5: filter_datum alters no separator, field name or non-matched text:
\* the result has as many separators as the message, and it is the message
\* with the text of some of its value spans replaced.
C5_OnlyValueSpans ==
  stage # "input" =>
    /\ Count(result, SEPARATOR) = Count(message, SEPARATOR)
    /\ \E D \in SUBSET ValueSpans(fields, message) :
         result = ReplaceSpans(message, D, 0)

\* no name of the list is a prefix or a suffix of another
NoCollision(flds) ==
  \A i, j \in 1..Len(flds) :
    i # j => ~IsPrefix(flds[i], flds[j]) /\ ~IsSuffix(flds[i], flds[j])

\* C6 as stated: every ordering of a collision-free field list gives the
\* same result.
C6_OrderIndependent ==
  stage # "input" /\ NoCollision(fields) =>
    \A t \in Orderings(fields) :
      filter_datum(t, REDACTION, message, SEPARATOR) = result

\* every value that follows '<field><separator>' for a configured field is
\* non-empty and does not end with a configured field name
CleanValues(flds, msg) ==
  \A d \in ValueSpans(flds, msg) :
    /\ d[2] > d[1]
    /\ \A i \in 1..Len(flds) : ~IsSuffix(flds[i], SubSeq(msg, d[1] + 1, d[2]))

\* C6 as amended: the orderings of a collision-free field list agree on
\* every message whose values are clean in the sense above.
C6_OrderIndependentOnCleanValues ==
  stage # "input" /\ NoCollision(fields) /\ CleanValues(fields, message) =>
    \A t \in Orderings(fields) :
      filter_datum(t, REDACTION, message, SEPARATOR) = result

C6_Witness ==
  /\ stage = "once"
  /\ Len(fields) = 2
  /\ NoCollision(fields)
  /\ CleanValues(fields, message)
  /\ \A i \in 1..2 : After(i) # After(i - 1)
  /\ Count(result, "*") = 6

---------------------------------------------------------------------------
(* Column names and values, spelled character by character *)

Name == <<"n", "a", "m", "e">>
Email == <<"e", "m", "a", "i", "l">>
Phone == <<"p", "h", "o", "n", "e">>
Ssn == <<"s", "s", "n">>
Password == <<"p", "a", "s", "s", "w", "o", "r", "d">>
Id == <<"i", "d">>
Bob == <<"B", "o", "b">>
BobMail == <<"b", "o", "b", "@", "x", ".", "c", "o", "m">>
N555 == <<"5", "5", "5">>

PII_FIELDS == <<Name, Email, Phone, Ssn, Password>>

Columns == {Name, Email, Phone, Id}
Values == {Bob, BobMail, N555}
Rows == SeqsUpTo(Columns \X Values, MaxRow)

\* '<name>:<value><separator>' for every pair of the row
RECURSIVE ColonMessage(_)
ColonMessage(r) ==
  IF r = <<>> THEN <<>>
  ELSE Head(r)[1] \o <<":">> \o Head(r)[2] \o <<SEPARATOR>> \o ColonMessage(Tail(r))

\* the row with the value of every listed column replaced by the token
RedactRow(r, flds) ==
  [i \in 1..Len(r) |->
     IF r[i][1] \in Range(flds) THEN <<r[i][1], REDACTION>> ELSE r[i]]

---------------------------------------------------------------------------
(* SpecScenario: filter_datum on messages of the form                      *)
(* 'name:Bob;email:bob@x.com;phone:555;' with lists of the PII fields.     *)

ScenarioFields == {<<Name, Email, Phone>>, PII_FIELDS, <<Ssn, Password>>, <<Name>>}

InitScenario ==
  /\ fields \in ScenarioFields
  /\ row \in Rows
  /\ message = ColonMessage(row)
  /\ result = <<>>
  /\ again = <<>>
  /\ stage = "input"
  /\ call = NoCall /\ record = NoRecord /\ line = NoLine
  /\ IdleLogger /\ IdleThreads

SpecScenario == InitScenario /\ [][Next]_vars

\* C2: on a message of '<name>:<value>;' pairs filter_datum returns the
\* message with the value of every listed pair replaced by '***' and the
\* rest unchanged.
C2_ListedValuesRedacted ==
  stage # "input" => result = ColonMessage(RedactRow(row, fields))

---------------------------------------------------------------------------
(* LogRecord.getMessage: msg % args when args is non-empty.  The result is *)
(* [ok, text]; ok is FALSE when the % operator raises.                     *)

Failed == [ok |-> FALSE, text |-> <<>>]
Then(t, r) == IF r.ok THEN [ok |-> TRUE, text |-> t \o r.text] ELSE Failed

\* the % scan from character i with k arguments consumed: %s takes the next
\* argument, %% is a percent sign, anything else behind % is no conversion
\* that accepts a string; arguments left over are an error too
RECURSIVE interpolate(_, _, _, _)
interpolate(msg, args, i, k) ==
  IF i > Len(msg) THEN [ok |-> k = Len(args), text |-> <<>>]
  ELSE IF msg[i] # "%" THEN Then(<<msg[i]>>, interpolate(msg, args, i + 1, k))
  ELSE IF i = Len(msg) THEN Failed
  ELSE IF msg[i + 1] = "%" THEN Then(<<"%">>, interpolate(msg, args, i + 2, k))
  ELSE IF msg[i + 1] = "s" /\ k < Len(args)
       THEN Then(args[k + 1], interpolate(msg, args, i + 2, k + 1))
  ELSE Failed

getMessage(rec) ==
  IF rec.args = <<>> THEN [ok |-> TRUE, text |-> rec.msg]
  ELSE interpolate(rec.msg, rec.args, 1, 0)

---------------------------------------------------------------------------
(* logging.Formatter.format with FORMAT, and RedactingFormatter.format     *)

formatTime(created) == ToString(created)

\* FORMAT = "[USER] %(name)s %(levelname)s %(asctime)s: %(message)s"
FORMAT(rec) ==
  <<"[USER] ", rec.name, " ", rec.levelname, " ", rec.asctime, ": ">>
    \o rec.message

\* Formatter.format: record.message = record.getMessage(), record.asctime
\* = formatTime(record), then the template; [ok, text, record]
Formatter_format(rec) ==
  LET m == getMessage(rec)
      after == [rec EXCEPT !.message = m.text,
                           !.asctime = formatTime(rec.created)]
  IN  IF m.ok THEN [ok |-> TRUE, text |-> FORMAT(after), record |-> after]
      ELSE [ok |-> FALSE, text |-> <<>>, record |-> rec]

\* record.msg = filter_datum(self.fields, self.REDACTION,
\*                           record.getMessage(), self.SEPARATOR)
\* return super().format(record)
RedactingFormatter_format(self_fields, rec) ==
  LET m == getMessage(rec)
  IN  IF m.ok
      THEN Formatter_format(
             [rec EXCEPT !.msg = filter_datum(self_fields, REDACTION, m.text,
                                              SEPARATOR)])
      ELSE [ok |-> FALSE, text |-> <<>>, record |-> rec]

\* the record logger.info(msg, *args) makes
LogRecord(c, t) ==
  [msg |-> c.msg, args |-> c.args, name |-> "user_data", levelname |-> "INFO",
   created |-> t, message |-> <<>>, asctime |-> ""]

\* "; ".join(f"{column}: {value}" for column, value in zip(...))
RECURSIVE main_message(_)
main_message(r) ==
  IF r = <<>> THEN <<>>
  ELSE Head(r)[1] \o <<":", " ">> \o Head(r)[2]
         \o (IF Len(r) = 1 THEN <<>> ELSE <<SEPARATOR, " ">>)
         \o main_message(Tail(r))

---------------------------------------------------------------------------
(* SpecFormat: one call of RedactingFormatter.format on the record of a   *)
(* logging call: a message main builds from a row, or a message put       *)
(* together from pieces, with arguments to interpolate.                    *)

Pieces == {Name \o <<SEPARATOR>>, <<"%", "s">>, <<"%">>, <<SEPARATOR>>, Bob}
ArgValues == {Bob, <<"%", "s">>}
PieceCalls ==
  {[msg |-> Flatten(ps), args |-> a] :
     ps \in SeqsUpTo(Pieces, MaxPieces), a \in SeqsUpTo(ArgValues, MaxArgs)}
FormatRows == SeqsUpTo({Name, Id} \X {Bob, <<>>}, MaxRow)
Times == {1, 2}

InitFormat ==
  /\ fields \in {PII_FIELDS, <<Name>>}
  /\ \/ row \in FormatRows /\ call = [msg |-> main_message(row), args |-> <<>>]
     \/ row = <<>> /\ call \in PieceCalls
  /\ \E t \in Times : record = LogRecord(call, t)
  /\ line = NoLine
  /\ stage = "input"
  /\ message = <<>> /\ result = <<>> /\ again = <<>>
  /\ IdleLogger /\ IdleThreads

CallFormat ==
  /\ stage = "input"
  /\ LET r == RedactingFormatter_format(fields, record)
     IN  /\ line' = [ok |-> r.ok, text |-> r.text]
         /\ record' = r.record
  /\ stage' = "formatted"
  /\ UNCHANGED <<fields, message, result, again, row, call>>
  /\ UNCHANGED <<loggerVars, threadVars>>

SpecFormat == InitFormat /\ [][CallFormat]_vars

\* C1: for every pair of the row whose column is a configured field and
\* whose value is non-empty, the returned line holds '***' where the value
\* stood and does not hold the value.
C1_SensitiveValuesRedacted ==
  stage = "formatted" =>
    \A i \in 1..Len(row) :
      row[i][1] \in Range(fields) /\ row[i][2] # <<>> =>
        /\ line.ok
        /\ Contains(line.text, row[i][1] \o <<":", " ">> \o REDACTION)
        /\ ~Contains(line.text, row[i][2])

\* C8: whenever the message renders with its arguments, format returns the
\* templated line whose message part is the redacted rendering.
C8_RenderThenRedact ==
  stage = "formatted" =>
    LET first == getMessage(LogRecord(call, record.created))
    IN  first.ok =>
          /\ line.ok
          /\ line.text =
               <<"[USER] ", "user_data", " ", "INFO", " ",
                 formatTime(record.created), ": ">>
                 \o filter_datum(fields, REDACTION, first.text, SEPARATOR)

---------------------------------------------------------------------------
(* SpecLogger: get_logger and logging calls on the 'user_data' logger, in *)
(* any order, the first call being get_logger.  logging.getLogger returns *)
(* the same logger object for the same name, so every get_logger call     *)
(* works on the state the earlier ones left.                               *)

\* logging.INFO; logging.DEBUG is the level ten below it
INFO == 20
DEBUG == INFO - 10

\* a handler whose stream is sys.stdout
StreamHandler_stdout == [stream |-> "stdout", fields |-> PII_FIELDS]

\* handler = logging.StreamHandler(); the stream defaults to sys.stderr
\* handler.setFormatter(RedactingFormatter(fields=PII_FIELDS))
StreamHandler == [stream |-> "stderr", fields |-> PII_FIELDS]

\* Logger.callHandlers over the logger's own handlers, from the i-th on:
\* each handler formats the one record (and so sees what the handlers
\* before it wrote to it) and writes the line to its stream; when format
\* raises, Handler.handleError reports on sys.stderr
RECURSIVE callHandlers(_, _, _)
callHandlers(hs, rec, i) ==
  IF i > Len(hs) THEN <<>>
  ELSE LET r == RedactingFormatter_format(hs[i].fields, rec)
       IN  <<[stream |-> IF r.ok THEN hs[i].stream ELSE "stderr",
              kind |-> IF r.ok THEN "line" ELSE "error",
              text |-> r.text]>>
             \o callHandlers(hs, r.record, i + 1)

OnStream(items, st) == SelectSeq(items, LAMBDA x : x.stream = st)

LogCalls ==
  {[msg |-> main_message(r), args |-> <<>>] : r \in {<<<<Name, Bob>>>>, <<<<Id, N555>>>>}}
    \cup {[msg |-> Name \o <<SEPARATOR>> \o Bob \o <<SEPARATOR>>, args |-> <<>>]}

InitLogger ==
  /\ IdleLogger
  /\ fields = <<>> /\ message = <<>> /\ result = <<>> /\ again = <<>>
  /\ stage = "input"
  /\ IdleFormat /\ IdleThreads

\* get_logger()
GetLogger ==
  /\ Len(calls) < MaxCalls
  /\ level' = INFO
  /\ propagate' = FALSE
  /\ handlers' = Append(handlers, StreamHandler)
  /\ calls' = Append(calls, "get_logger")
  /\ UNCHANGED <<stdout, stderr, rootOut>>
  /\ UNCHANGED <<filterVars, formatVars, threadVars>>

\* logger.log(lvl, msg) on the logger get_logger returned
Log(lvl, kind, c) ==
  /\ Len(calls) < MaxCalls
  /\ calls # <<>>
  /\ calls' = Append(calls, kind)
  /\ IF lvl >= level
     THEN LET items == callHandlers(handlers, LogRecord(c, Len(calls)), 1)
          IN  /\ stdout' = stdout \o OnStream(items, "stdout")
              /\ stderr' = stderr \o OnStream(items, "stderr")
              /\ rootOut' = IF propagate THEN Append(rootOut, c.msg)
                            ELSE rootOut
     ELSE UNCHANGED <<stdout, stderr, rootOut>>
  /\ UNCHANGED <<handlers, propagate, level>>
  /\ UNCHANGED <<filterVars, formatVars, threadVars>>

Info == \E c \in LogCalls : Log(INFO, "info", c)
Debug == \E c \in LogCalls : Log(DEBUG, "debug", c)

NextLogger == GetLogger \/ Info \/ Debug

SpecLogger == InitLogger /\ [][NextLogger]_vars

Lines(items) == SelectSeq(items, LAMBDA x : x.kind = "line")
InfoCalls == Len(SelectSeq(calls, LAMBDA k : k = "info"))

\* C7: after any calls of get_logger and of info, every info call has
\* emitted exactly one line, the logger carries at most one handler and
\* nothing has reached the handler of the root logger.
C7_OneLinePerInfo ==
  /\ Len(handlers) <= 1
  /\ rootOut = <<>>
  /\ Len(Lines(stdout)) + Len(Lines(stderr)) = InfoCalls

---------------------------------------------------------------------------
(* SpecThreads: several threads inside RedactingFormatter.format at once, *)
(* each on a record of its own, all on one formatter (self.fields is the  *)
(* variable fields).  The steps are those of the two statements of format *)
(* and of logging.Formatter.format, which super().format runs.             *)

Threads == 1..NThreads

ThreadCalls ==
  {[msg |-> Name \o <<SEPARATOR>> \o Bob \o <<SEPARATOR>>, args |-> <<>>],
   [msg |-> Email \o <<SEPARATOR, "%", "s", SEPARATOR>>, args |-> <<BobMail>>],
   [msg |-> main_message(<<<<Name, Bob>>, <<Id, N555>>>>), args |-> <<>>],
   [msg |-> <<"%", "s">>, args |-> <<>>]}

\* a temporary kept in one attribute of the shared formatter
Slot_onFormatter(t) == 1

\* where a call keeps the value of record.getMessage() until filter_datum
\* has used it: in the frame of the call, one per thread
Slot(t) == t

InitThreads ==
  /\ fields = PII_FIELDS
  /\ call \in [Threads -> ThreadCalls]
  /\ recs = [t \in Threads |-> LogRecord(call[t], t)]
  /\ pc = [t \in Threads |-> "start"]
  /\ rendered = [t \in Threads |-> <<>>]
  /\ ret = [t \in Threads |-> NoLine]
  /\ message = <<>> /\ result = <<>> /\ again = <<>> /\ stage = "input"
  /\ row = <<>> /\ record = NoRecord /\ line = NoLine
  /\ IdleLogger

Raise(t) ==
  /\ ret' = [ret EXCEPT ![t] = Failed]
  /\ pc' = [pc EXCEPT ![t] = "done"]

\* record.getMessage(), the argument of filter_datum
Render(t) ==
  /\ pc[t] = "start"
  /\ LET m == getMessage(recs[t])
     IN  IF m.ok
         THEN /\ rendered' = [rendered EXCEPT ![Slot(t)] = m.text]
              /\ pc' = [pc EXCEPT ![t] = "rendered"]
              /\ UNCHANGED ret
         ELSE Raise(t) /\ UNCHANGED rendered
  /\ UNCHANGED <<recs, filterVars, formatVars, loggerVars>>

\* record.msg = filter_datum(self.fields, self.REDACTION, .., self.SEPARATOR)
Redact(t) ==
  /\ pc[t] = "rendered"
  /\ recs' = [recs EXCEPT ![t].msg =
                filter_datum(fields, REDACTION, rendered[Slot(t)], SEPARATOR)]
  /\ pc' = [pc EXCEPT ![t] = "redacted"]
  /\ UNCHANGED <<rendered, ret, filterVars, formatVars, loggerVars>>

\* Formatter.format: record.message = record.getMessage()
SetMessage(t) ==
  /\ pc[t] = "redacted"
  /\ LET m == getMessage(recs[t])
     IN  IF m.ok
         THEN /\ recs' = [recs EXCEPT ![t].message = m.text]
              /\ pc' = [pc EXCEPT ![t] = "message"]
              /\ UNCHANGED ret
         ELSE Raise(t) /\ UNCHANGED recs
  /\ UNCHANGED <<rendered, filterVars, formatVars, loggerVars>>

\* Formatter.format: record.asctime = self.formatTime(record, self.datefmt)
SetAsctime(t) ==
  /\ pc[t] = "message"
  /\ recs' = [recs EXCEPT ![t].asctime = formatTime(recs[t].created)]
  /\ pc' = [pc EXCEPT ![t] = "asctime"]
  /\ UNCHANGED <<rendered, ret, filterVars, formatVars, loggerVars>>

\* Formatter.format: return self.formatMessage(record)
FormatMessage(t) ==
  /\ pc[t] = "asctime"
  /\ ret' = [ret EXCEPT ![t] = [ok |-> TRUE, text |-> FORMAT(recs[t])]]
  /\ pc' = [pc EXCEPT ![t] = "done"]
  /\ UNCHANGED <<recs, rendered, filterVars, formatVars, loggerVars>>

NextThreads ==
  \E t \in Threads :
    \/ Render(t)
    \/ Redact(t)
    \/ SetMessage(t)
    \/ SetAsctime(t)
    \/ FormatMessage(t)

SpecThreads == InitThreads /\ [][NextThreads]_vars

\* what the call of thread t returns when it runs alone
Alone(t) ==
  LET r == RedactingFormatter_format(PII_FIELDS, LogRecord(call[t], t))
  IN  [ok |-> r.ok, text |-> r.text]

\* C10: under every interleaving the formatter's fields stay as they were
\* constructed and every finished call has returned what it returns alone.
C10_SameAsAlone ==
  /\ fields = PII_FIELDS
  /\ \A t \in Threads : pc[t] = "done" => ret[t] = Alone(t)

C10_Witness ==
  /\ pc[1] = "done" /\ ret[1].ok
  /\ Contains(ret[1].text, REDACTION)
  /\ pc[2] = "rendered"
  /\ call[2] # call[1]

====
